---- MODULE Spec2Model ----
(***************************************************************************)
(* versync: one authoritative version string kept in step across TOML and  *)
(* JSON files, with an optional git tag.  The model covers the two format  *)
(* engines (src/src/format), the format dispatcher and configuration       *)
(* (src/src/config.rs), the three commands (src/src/commands) and main's   *)
(* exit codes (src/src/main.rs).                                           *)
(*                                                                         *)
(* Text is modelled as sequences of characters.  A key such as "a.b" is    *)
(* <<"a", ".", "b">>; a name (one segment) is the sequence of characters   *)
(* between two dots, so the empty segment is <<>>.  A file is a sequence   *)
(* of lines; each scalar on a line is kept as its raw text (with quotes    *)
(* and escapes), and parsing decodes it.                                   *)
(***************************************************************************)
EXTENDS Integers, Sequences, FiniteSets, TLC

VARIABLES
    fs,        \* path -> file content (the working tree)
    ro,        \* paths whose file cannot be written (fs::write fails)
    cfgfile,   \* the content of version.toml
    pc,        \* where main() is
    cmd,       \* the subcommand of the current run
    config,    \* the Config that Config::load returned
    idx,       \* the loop position in config.targets (next target to visit)
    results,   \* the results vector of check() / apply()
    all_ok,    \* check()'s all_ok
    exit,      \* the process exit code of the finished run (-1: none yet)
    err,       \* the Error the run ended with ("" when none)
    trace,     \* what the current run has called, in order
    tags,      \* tag names created by create_annotated_tag
    runs,      \* how many runs have started
    fs0,       \* fs when the current run (or engine call) started
    prev,      \* the previous finished run
    eng        \* the last direct call of a format engine

vars == <<fs, ro, cfgfile, pc, cmd, config, idx, results, all_ok, exit, err,
          trace, tags, runs, fs0, prev, eng>>

----------------------------------------------------------------------------
(* Sequences *)

Last(s) == s[Len(s)]

Front(s) == SubSeq(s, 1, Len(s) - 1)

IsPrefix(p, q) == Len(p) <= Len(q) /\ SubSeq(q, 1, Len(p)) = p

SetMax(S) == CHOOSE x \in S : \A y \in S : y <= x

----------------------------------------------------------------------------
(* Characters and scalar text, as the TOML and JSON grammars read it *)

DQ == "\""

BS == "\\"

Digits == {"0", "1", "2"}

RECURSIVE escape(_)
\* the body of a basic (double-quoted) string: a quote or a backslash is
\* written with a backslash before it
escape(s) ==
    IF s = <<>> THEN <<>>
    ELSE (IF Head(s) \in {DQ, BS} THEN <<BS, Head(s)>> ELSE <<Head(s)>>)
         \o escape(Tail(s))

\* how a string value is written: toml_edit's default repr of a new value,
\* serde_json's string serialisation
Quote(s) == <<DQ>> \o escape(s) \o <<DQ>>

RECURSIVE unescape(_)
\* the reverse of escape; fails on a bare quote or a dangling backslash
unescape(b) ==
    IF b = <<>> THEN [ok |-> TRUE, s |-> <<>>]
    ELSE IF Head(b) = DQ THEN [ok |-> FALSE, s |-> <<>>]
    ELSE IF Head(b) = BS
         THEN IF Len(b) >= 2 /\ b[2] \in {DQ, BS}
              THEN LET after(r) == [ok |-> r.ok, s |-> <<b[2]>> \o r.s]
                   IN  after(unescape(SubSeq(b, 3, Len(b))))
              ELSE [ok |-> FALSE, s |-> <<>>]
    ELSE LET after(r) == [ok |-> r.ok, s |-> <<Head(b)>> \o r.s]
         IN  after(unescape(Tail(b)))

IsNumber(raw) ==
    /\ raw # <<>>
    /\ \A i \in 1..Len(raw) : raw[i] \in Digits \cup {"."}
    /\ Head(raw) \in Digits /\ Last(raw) \in Digits
    /\ Cardinality({i \in 1..Len(raw) : raw[i] = "."}) <= 1

\* the value a raw scalar denotes: [ok, type, s]; s is the decoded string for
\* a string and the raw text otherwise
Scalar(raw) ==
    IF raw = <<>> THEN [ok |-> FALSE, type |-> "", s |-> <<>>]
    ELSE IF Head(raw) = DQ
         THEN IF Len(raw) >= 2 /\ Last(raw) = DQ
              THEN LET string(r) == [ok |-> r.ok, type |-> "string", s |-> r.s]
                   IN  string(unescape(SubSeq(raw, 2, Len(raw) - 1)))
              ELSE [ok |-> FALSE, type |-> "", s |-> <<>>]
    ELSE IF raw \in {<<"true">>, <<"false">>}
         THEN [ok |-> TRUE, type |-> "boolean", s |-> raw]
    ELSE IF Head(raw) = "[" /\ Last(raw) = "]"
         THEN [ok |-> TRUE, type |-> "array", s |-> raw]
    ELSE IF IsNumber(raw)
         THEN [ok |-> TRUE,
               type |-> IF \E i \in 1..Len(raw) : raw[i] = "." THEN "float" ELSE "integer",
               s |-> raw]
    ELSE [ok |-> FALSE, type |-> "", s |-> <<>>]

----------------------------------------------------------------------------
(* Results and errors (src/src/error.rs) *)

NoPath == <<>>

Ok(v) == [ok |-> TRUE, val |-> v, err |-> "", file |-> NoPath, key |-> <<>>]

Err(kind, file, key) == [ok |-> FALSE, val |-> <<>>, err |-> kind, file |-> file, key |-> key]

TargetNotFound(path) == Err("TargetNotFound", path, <<>>)

TargetParse(path) == Err("TargetParse", path, <<>>)

KeyNotFound(path, key) == Err("KeyNotFound", path, key)

ValueNotString(path, key) == Err("ValueNotString", path, key)

UnknownFormat(path) == Err("UnknownFormat", path, <<>>)

\* impl From<std::io::Error> for Error: the #[from] on ConfigRead
IoError(path) == Err("ConfigRead", path, <<>>)

----------------------------------------------------------------------------
(* Key paths *)

RECURSIVE split(_)
\* key.split('.'): the text between the dots, empty pieces included; never
\* an empty vector
split(key) ==
    IF \A i \in 1..Len(key) : key[i] # "." THEN <<key>>
    ELSE LET i == CHOOSE i \in 1..Len(key) :
                      key[i] = "." /\ \A j \in 1..(i - 1) : key[j] # "."
         IN  <<SubSeq(key, 1, i - 1)>> \o split(SubSeq(key, i + 1, Len(key)))

----------------------------------------------------------------------------
(* Files.  A content is [syntax, layout, lines]; a line is                *)
(*   [kind, path, raw, trail]:                                             *)
(*   TOML  "comment": trail is the comment text                            *)
(*         "table":   path is the header's dotted path, [a.b]              *)
(*         "kv":      path is <<key>>, raw the value's text, trail what    *)
(*                    follows the value on its line (spaces, a comment)    *)
(*   JSON  "member":  path is the member's path from the root, raw the     *)
(*                    scalar's text                                        *)
(* TOML text is never valid JSON and JSON text never valid TOML.           *)

Missing == [syntax |-> "missing", layout |-> "", lines |-> <<>>]

Junk == [syntax |-> "junk", layout |-> "", lines |-> <<>>]

Line(kind, path, raw, trail) == [kind |-> kind, path |-> path, raw |-> raw, trail |-> trail]

\* fs::read_to_string(path): any failure is reported as TargetNotFound
read_to_string(files, path) ==
    IF files[path].syntax = "missing" THEN TargetNotFound(path) ELSE Ok(files[path])

----------------------------------------------------------------------------
(* Engine A: TOML through toml_edit (src/src/format/toml.rs).              *)
(* A DocumentMut keeps one item per line: [kind, path, type, s, raw,       *)
(* trail].  For a "kv" item path is the full path from the root, type and  *)
(* s the decoded value, raw its repr (<<>>: none, the value is encoded     *)
(* when the document is written) and trail the decor after the value.      *)

Item(kind, path, type, s, raw, trail) ==
    [kind |-> kind, path |-> path, type |-> type, s |-> s, raw |-> raw, trail |-> trail]

RECURSIVE toml_items(_, _)
\* the items of the lines that follow a header of table `table`
toml_items(lines, table) ==
    IF lines = <<>> THEN <<>>
    ELSE IF Head(lines).kind = "table"
    THEN <<Item("table", Head(lines).path, "", <<>>, <<>>, Head(lines).trail)>>
         \o toml_items(Tail(lines), Head(lines).path)
    ELSE IF Head(lines).kind = "kv"
    THEN LET item(v) == Item(IF v.ok THEN "kv" ELSE "invalid",
                             table \o Head(lines).path, v.type, v.s,
                             Head(lines).raw, Head(lines).trail)
         IN  <<item(Scalar(Head(lines).raw))>> \o toml_items(Tail(lines), table)
    ELSE <<Item(Head(lines).kind, Head(lines).path, "", <<>>, <<>>, Head(lines).trail)>>
         \o toml_items(Tail(lines), table)

\* a key or a table is defined once, and below a value there is nothing
toml_wellformed(doc) ==
    /\ \A i \in 1..Len(doc) : doc[i].kind \in {"comment", "table", "kv"}
    /\ \A i \in 1..Len(doc) :
           doc[i].kind = "comment" \/
           \A j \in 1..Len(doc) :
               \/ i = j
               \/ doc[j].kind = "comment"
               \/ /\ doc[i].kind = doc[j].kind => doc[i].path # doc[j].path
                  /\ doc[i].kind = "kv" => ~IsPrefix(doc[i].path, doc[j].path)

\* content.parse::<DocumentMut>(): [ok, doc]
toml_parse(content) ==
    LET parsed(doc) ==
            IF content.syntax = "toml" /\ toml_wellformed(doc)
            THEN [ok |-> TRUE, doc |-> doc] ELSE [ok |-> FALSE, doc |-> <<>>]
    IN  parsed(toml_items(content.lines, <<>>))

\* doc.to_string(): every item as it was read; a value without a repr is
\* encoded now
toml_to_string(doc) ==
    [syntax |-> "toml", layout |-> "",
     lines |-> [i \in 1..Len(doc) |->
                   IF doc[i].kind = "kv"
                   THEN Line("kv", <<Last(doc[i].path)>>,
                             IF doc[i].raw = <<>> THEN Quote(doc[i].s) ELSE doc[i].raw,
                             doc[i].trail)
                   ELSE Line(doc[i].kind, doc[i].path, <<>>, doc[i].trail)]]

\* A position in a document: a table, a value, Item::None, or nothing
\* (Option::None)
Root == [t |-> "table", p |-> <<>>]

NoneItem == [t |-> "none", p |-> <<>>]

Absent == [t |-> "absent", p |-> <<>>]

toml_item_at(doc, q) ==
    IF \E i \in 1..Len(doc) : doc[i].kind = "kv" /\ doc[i].path = q
    THEN [t |-> "value", p |-> q]
    ELSE IF \E i \in 1..Len(doc) : doc[i].kind = "table" /\ IsPrefix(q, doc[i].path)
    THEN [t |-> "table", p |-> q]
    ELSE Absent

toml_kv(doc, q) == doc[CHOOSE i \in 1..Len(doc) : doc[i].kind = "kv" /\ doc[i].path = q]

\* Item::get(k): a table's entry, nothing below a value
toml_get(doc, cur, k) ==
    IF cur.t = "table" THEN toml_item_at(doc, cur.p \o <<k>>) ELSE Absent

\* Item::get_mut(k) is toml_edit's index_mut: a table's missing entry is
\* inserted as Item::None and returned, Item::None becomes an inline table
\* holding the key; below any other value there is nothing
toml_get_mut(doc, cur, k) ==
    IF cur.t = "none" THEN NoneItem
    ELSE IF cur.t = "table"
         THEN LET entry(it) == IF it.t = "absent" THEN NoneItem ELSE it
              IN  entry(toml_item_at(doc, cur.p \o <<k>>))
    ELSE Absent

toml_is_str(doc, cur) == cur.t = "value" /\ toml_kv(doc, cur.p).type = "string"

RECURSIVE toml_descend(_, _, _)
\* for k in &keys { current = current.get(k).ok_or_else(..)? }
toml_descend(doc, cur, keys) ==
    IF keys = <<>> \/ cur.t = "absent" THEN cur
    ELSE toml_descend(doc, toml_get(doc, cur, Head(keys)), Tail(keys))

RECURSIVE toml_descend_mut(_, _, _)
toml_descend_mut(doc, cur, keys) ==
    IF keys = <<>> \/ cur.t = "absent" THEN cur
    ELSE toml_descend_mut(doc, toml_get_mut(doc, cur, Head(keys)), Tail(keys))

\* get_value naming the segment it stopped at instead of the whole key
toml_get_value_segment(doc, path, key) ==
    LET as_str(current) ==
            IF current.t = "absent" THEN KeyNotFound(path, Head(split(key)))
            ELSE IF toml_is_str(doc, current) THEN Ok(toml_kv(doc, current.p).s)
            ELSE ValueNotString(path, key)
    IN  as_str(toml_descend(doc, Root, split(key)))

\* get_value: the walk along the segments, then as_str()
toml_get_value(doc, path, key) ==
    LET as_str(current) ==
            IF current.t = "absent" THEN KeyNotFound(path, key)
            ELSE IF toml_is_str(doc, current) THEN Ok(toml_kv(doc, current.p).s)
            ELSE ValueNotString(path, key)
    IN  as_str(toml_descend(doc, Root, split(key)))

\* *target = toml_edit::value(version): a new item, without a repr and with
\* the default decor, so what followed the old value on its line is gone
toml_edit_value(old, version) ==
    Item("kv", old.path, "string", version, <<>>, "")

\* set_value replacing the entry named by the last segment in the root table
toml_set_value_at_root(doc, path, key, version) ==
    LET replace(target) ==
            IF target.t = "absent" THEN [res |-> KeyNotFound(path, key), doc |-> doc]
            ELSE IF ~toml_is_str(doc, target)
            THEN [res |-> ValueNotString(path, key), doc |-> doc]
            ELSE [res |-> Ok(<<>>),
                  doc |-> [i \in 1..Len(doc) |->
                              IF doc[i].kind = "kv" /\ doc[i].path = <<Last(target.p)>>
                              THEN toml_edit_value(doc[i], version) ELSE doc[i]]]
        last(keys, current) ==
            replace(IF current.t = "absent" THEN Absent
                    ELSE toml_get_mut(doc, current, Last(keys)))
        walk(keys) == last(keys, toml_descend_mut(doc, Root, Front(keys)))
    IN  walk(split(key))

\* set_value: [res, doc]
toml_set_value(doc, path, key, version) ==
    LET replace(target) ==
            IF target.t = "absent" THEN [res |-> KeyNotFound(path, key), doc |-> doc]
            ELSE IF ~toml_is_str(doc, target)
            THEN [res |-> ValueNotString(path, key), doc |-> doc]
            ELSE [res |-> Ok(<<>>),
                  doc |-> [i \in 1..Len(doc) |->
                              IF doc[i].kind = "kv" /\ doc[i].path = target.p
                              THEN toml_edit_value(doc[i], version) ELSE doc[i]]]
        last(keys, current) ==
            replace(IF current.t = "absent" THEN Absent
                    ELSE toml_get_mut(doc, current, Last(keys)))
        walk(keys) == last(keys, toml_descend_mut(doc, Root, Front(keys)))
    IN  walk(split(key))

toml_read_version(files, path, key) ==
    LET get(d) == IF ~d.ok THEN TargetParse(path) ELSE toml_get_value(d.doc, path, key)
        parse_content(content) ==
            IF ~content.ok THEN content ELSE get(toml_parse(content.val))
    IN  parse_content(read_to_string(files, path))

\* fs::write(path, text): [res, files]
fs_write(files, readonly, path, text) ==
    IF path \in readonly THEN [res |-> IoError(path), files |-> files]
    ELSE [res |-> Ok(<<>>), files |-> [files EXCEPT ![path] = text]]

\* [res, files]
toml_write_version(files, readonly, path, key, version) ==
    LET write(w) ==
            IF ~w.res.ok THEN [res |-> w.res, files |-> files]
            ELSE fs_write(files, readonly, path, toml_to_string(w.doc))
        set(d) ==
            IF ~d.ok THEN [res |-> TargetParse(path), files |-> files]
            ELSE write(toml_set_value(d.doc, path, key, version))
        parse_content(content) ==
            IF ~content.ok THEN [res |-> content, files |-> files]
            ELSE set(toml_parse(content.val))
    IN  parse_content(read_to_string(files, path))

----------------------------------------------------------------------------
(* Engine B: JSON through serde_json (src/src/format/json.rs).             *)
(* A Value is kept as its leaves, [path, type, s], in the order of         *)
(* serde_json's Map (a BTreeMap: keys sorted), one leaf per path.          *)

\* byte order of the characters that names are made of
NameChars == <<"a", "b", "c", "count", "name", "project", "version">>

Rank(ch) == CHOOSE i \in 1..Len(NameChars) : NameChars[i] = ch

RECURSIVE NameLess(_, _)
NameLess(a, b) ==
    IF b = <<>> THEN FALSE
    ELSE IF a = <<>> THEN TRUE
    ELSE IF Head(a) # Head(b) THEN Rank(Head(a)) < Rank(Head(b))
    ELSE NameLess(Tail(a), Tail(b))

RECURSIVE PathLess(_, _)
PathLess(p, q) ==
    IF q = <<>> THEN FALSE
    ELSE IF p = <<>> THEN TRUE
    ELSE IF Head(p) # Head(q) THEN NameLess(Head(p), Head(q))
    ELSE PathLess(Tail(p), Tail(q))

Leaf(path, type, s) == [path |-> path, type |-> type, s |-> s]

LeafLess(x, y) == PathLess(x.path, y.path)

RECURSIVE SeqOf(_, _)
\* the elements of lines at the positions in S, in order
SeqOf(lines, S) ==
    IF S = {} THEN <<>>
    ELSE LET i == CHOOSE i \in S : \A j \in S : i <= j
         IN  <<lines[i]>> \o SeqOf(lines, S \ {i})

RECURSIVE json_leaves(_)
\* the members as they are read, one leaf each
json_leaves(lines) ==
    IF lines = <<>> THEN <<>>
    ELSE LET leaf(v) == Leaf(Head(lines).path,
                             IF Head(lines).kind = "member" /\ v.ok THEN v.type
                             ELSE "invalid",
                             v.s)
         IN  <<leaf(Scalar(Head(lines).raw))>> \o json_leaves(Tail(lines))

\* serde_json::from_str(&content): [ok, value]; a repeated member replaces
\* the earlier one
json_from_str(content) ==
    LET kept(lines) ==
            {i \in 1..Len(lines) :
                \A j \in (i + 1)..Len(lines) : lines[j].path # lines[i].path}
        parsed(leaves) ==
            IF /\ content.syntax = "json"
               /\ \A i \in 1..Len(leaves) : leaves[i].type # "invalid"
            THEN [ok |-> TRUE, value |-> SortSeq(SeqOf(leaves, kept(leaves)), LeafLess)]
            ELSE [ok |-> FALSE, value |-> <<>>]
    IN  parsed(json_leaves(content.lines))

\* format!("{}\n", serde_json::to_string_pretty(&json)): the whole tree
\* written anew, two-space indentation, one trailing newline
json_to_string_pretty(value) ==
    [syntax |-> "json", layout |-> "pretty",
     lines |-> [i \in 1..Len(value) |->
                   Line("member", value[i].path,
                        IF value[i].type = "string" THEN Quote(value[i].s) ELSE value[i].s,
                        "")]]

json_item_at(value, q) ==
    IF \E i \in 1..Len(value) : value[i].path = q
    THEN [t |-> "value", p |-> q]
    ELSE IF q = <<>> \/ \E i \in 1..Len(value) : IsPrefix(q, value[i].path)
    THEN [t |-> "object", p |-> q]
    ELSE Absent

json_leaf(value, q) == value[CHOOSE i \in 1..Len(value) : value[i].path = q]

\* Value::get(k) and Value::get_mut(k): an object's member, nothing else
json_get(value, cur, k) ==
    IF cur.t = "object" THEN json_item_at(value, cur.p \o <<k>>) ELSE Absent

json_is_string(value, cur) == cur.t = "value" /\ json_leaf(value, cur.p).type = "string"

RECURSIVE json_descend(_, _, _)
json_descend(value, cur, keys) ==
    IF keys = <<>> \/ cur.t = "absent" THEN cur
    ELSE json_descend(value, json_get(value, cur, Head(keys)), Tail(keys))

\* get_value returning the text of any scalar it finds
json_get_value_coerced(value, path, key) ==
    LET as_str(current) ==
            IF current.t = "absent" THEN KeyNotFound(path, key)
            ELSE IF current.t = "value" THEN Ok(json_leaf(value, current.p).s)
            ELSE ValueNotString(path, key)
    IN  as_str(json_descend(value, json_item_at(value, <<>>), split(key)))

\* get_value: the walk along the segments, then as_str()
json_get_value(value, path, key) ==
    LET as_str(current) ==
            IF current.t = "absent" THEN KeyNotFound(path, key)
            ELSE IF json_is_string(value, current) THEN Ok(json_leaf(value, current.p).s)
            ELSE ValueNotString(path, key)
    IN  as_str(json_descend(value, json_item_at(value, <<>>), split(key)))

\* [res, value]
json_set_value(value, path, key, version) ==
    LET replace(target) ==
            IF target.t = "absent" THEN [res |-> KeyNotFound(path, key), value |-> value]
            ELSE IF ~json_is_string(value, target)
            THEN [res |-> ValueNotString(path, key), value |-> value]
            ELSE [res |-> Ok(<<>>),
                  value |-> [i \in 1..Len(value) |->
                                IF value[i].path = target.p
                                THEN Leaf(value[i].path, "string", version)
                                ELSE value[i]]]
        last(keys, current) ==
            replace(IF current.t = "absent" THEN Absent
                    ELSE json_get(value, current, Last(keys)))
        walk(keys) ==
            last(keys, json_descend(value, json_item_at(value, <<>>), Front(keys)))
    IN  walk(split(key))

json_read_version(files, path, key) ==
    LET get(j) == IF ~j.ok THEN TargetParse(path) ELSE json_get_value(j.value, path, key)
        parse_content(content) ==
            IF ~content.ok THEN content ELSE get(json_from_str(content.val))
    IN  parse_content(read_to_string(files, path))

\* [res, files]
json_write_version(files, readonly, path, key, version) ==
    LET write(w) ==
            IF ~w.res.ok THEN [res |-> w.res, files |-> files]
            ELSE fs_write(files, readonly, path, json_to_string_pretty(w.value))
        set(j) ==
            IF ~j.ok THEN [res |-> TargetParse(path), files |-> files]
            ELSE write(json_set_value(j.value, path, key, version))
        parse_content(content) ==
            IF ~content.ok THEN [res |-> content, files |-> files]
            ELSE set(json_from_str(content.val))
    IN  parse_content(read_to_string(files, path))

----------------------------------------------------------------------------
(* The dispatcher (src/src/format/mod.rs) *)

read_version(files, path, key, format) ==
    IF format = "toml" THEN toml_read_version(files, path, key)
    ELSE json_read_version(files, path, key)

\* a write_version that reports success and writes nothing
write_version_dry(files, readonly, path, key, version, format) ==
    [res |-> Ok(<<>>), files |-> files]

write_version(files, readonly, path, key, version, format) ==
    IF format = "toml" THEN toml_write_version(files, readonly, path, key, version)
    ELSE json_write_version(files, readonly, path, key, version)

----------------------------------------------------------------------------
(* Configuration (src/src/config.rs) *)

\* Path::extension() of a file name: what follows the last dot, unless
\* there is no dot or nothing stands before it
extension(path) ==
    LET after(dots) ==
            IF dots = {} THEN [some |-> FALSE, ext |-> <<>>]
            ELSE IF SetMax(dots) = 1 THEN [some |-> FALSE, ext |-> <<>>]
            ELSE [some |-> TRUE, ext |-> SubSeq(path, SetMax(dots) + 1, Len(path))]
    IN  after({i \in 1..Len(path) : path[i] = "."})

\* FileFormat::from_path
from_path(path) ==
    LET format(e) ==
            IF e.some /\ e.ext = <<"toml">> THEN "toml"
            ELSE IF e.some /\ e.ext = <<"json">> THEN "json"
            ELSE "none"
    IN  format(extension(path))

Target(file, key, format) == [file |-> file, key |-> key, format |-> format]

\* effective_format looking at the extension only
effective_format_by_extension(target) == from_path(target.file)

\* Target::effective_format: self.format.or_else(|| from_path(&self.file))
effective_format(target) ==
    IF target.format # "none" THEN target.format ELSE from_path(target.file)

NoConfig == [kind |-> "none", version |-> <<>>, targets |-> <<>>, tag_prefix |-> <<>>]

ConfigFile(kind, version, targets) ==
    [kind |-> kind, version |-> version, targets |-> targets, tag_prefix |-> <<"v">>]

\* Config::parse: the deserialised document, refused when it has no target
parse(file) ==
    IF file.kind = "malformed" THEN Err("ConfigParse", NoPath, <<>>)
    ELSE IF file.targets = <<>> THEN Err("ConfigParse", NoPath, <<>>)
    ELSE Ok(file)

\* Config::load
load(file) ==
    IF file.kind = "missing" THEN Err("ConfigNotFound", NoPath, <<>>)
    ELSE IF file.kind = "unreadable" THEN Err("ConfigRead", NoPath, <<>>)
    ELSE parse(file)

\* Config::tag_name: format!("{}{}", prefix, version)
tag_name(c) == c.tag_prefix \o c.version

----------------------------------------------------------------------------
(* The cases explored *)

V100 == <<"1", ".", "0", ".", "0">>

V120 == <<"1", ".", "2", ".", "0">>

\* a version holding a quote and a backslash
VQB == <<"1", DQ, BS>>

Versions == {V100, V120, VQB}

N(ch) == <<ch>>

Key1(a) == <<a>>

Key2(a, b) == <<a, ".", b>>

Key3(a, b, c) == <<a, ".", b, ".", c>>

Keys ==
    { Key1("version"), Key2("project", "version"), Key2("project", "name"),
      Key1("count"), Key1("project"), Key2("a", "b"), Key3("a", "b", "c"),
      Key2("a", "c"), Key2("c", "b"), Key3("a", "c", "b"), Key3("c", "a", "b"),
      <<>>, <<"a", ".", ".", "b">>, <<".", "a">>, <<"a", ".">> }

PCargo == <<"Cargo", ".", "toml">>

PPackage == <<"package", ".", "json">>

PVersion == <<"VERSION">>

PReadme == <<"README", ".", "md">>

PHidden == <<".", "toml">>

Paths == {PCargo, PPackage, PVersion, PReadme, PHidden}

\* A manifest in TOML:
\*   # This is a comment
\*   version = "<v>"  # version number
\*   count = 1
\*   "" = "<v>"
\*   [project]
\*   name = "test"  # project name
\*   version = "<w>"  # version number
\*   [a]
\*   b = "<w>"
\*   [a.""]
\*   b = "<v>"
TomlManifest(v, w) ==
    [syntax |-> "toml", layout |-> "",
     lines |-> << Line("comment", <<>>, <<>>, "# This is a comment"),
                  Line("kv", <<N("version")>>, Quote(v), "  # version number"),
                  Line("kv", <<N("count")>>, <<"1">>, ""),
                  Line("kv", <<<<>>>>, Quote(v), ""),
                  Line("table", <<N("project")>>, <<>>, ""),
                  Line("kv", <<N("name")>>, Quote(<<"test">>), "  # project name"),
                  Line("kv", <<N("version")>>, Quote(w), "  # version number"),
                  Line("table", <<N("a")>>, <<>>, ""),
                  Line("kv", <<N("b")>>, Quote(w), ""),
                  Line("table", <<N("a"), <<>>>>, <<>>, ""),
                  Line("kv", <<N("b")>>, Quote(v), "") >>]

\* version = "1.0.0   (the closing quote is missing)
TomlBroken ==
    [syntax |-> "toml", layout |-> "",
     lines |-> << Line("kv", <<N("version")>>, <<DQ>> \o V100, "") >>]

\* The same manifest in JSON, members in the order written:
\*   {"version": "<v>", "project": {"version": "<w>", "name": "test"},
\*    "count": 1, "a": {"b": "<w>", "": {"b": "<v>"}}, "": "<v>"}
JsonManifest(v, w, layout) ==
    [syntax |-> "json", layout |-> layout,
     lines |-> << Line("member", <<N("version")>>, Quote(v), ""),
                  Line("member", <<N("project"), N("version")>>, Quote(w), ""),
                  Line("member", <<N("project"), N("name")>>, Quote(<<"test">>), ""),
                  Line("member", <<N("count")>>, <<"1">>, ""),
                  Line("member", <<N("a"), N("b")>>, Quote(w), ""),
                  Line("member", <<N("a"), <<>>, N("b")>>, Quote(v), ""),
                  Line("member", <<<<>>>>, Quote(v), "") >>]

\* {"version": "<v>", "version": "<w>"}: a member given twice
JsonTwice(v, w) ==
    [syntax |-> "json", layout |-> "compact",
     lines |-> << Line("member", <<N("version")>>, Quote(v), ""),
                  Line("member", <<N("version")>>, Quote(w), "") >>]

\* the (version, project.version) pairs the manifests are written with
Pairs == {<<V100, V100>>, <<V100, V120>>, <<VQB, V100>>}

TomlDocs == {TomlManifest(p[1], p[2]) : p \in Pairs} \cup {TomlBroken}

JsonDocs ==
    {JsonManifest(p[1], p[2], l) : p \in Pairs, l \in {"compact", "pretty"}}
    \cup {JsonTwice(V100, V120)}

Docs == TomlDocs \cup JsonDocs \cup {Missing, Junk}

NoCall == [op |-> "", path |-> NoPath, key |-> <<>>, version |-> <<>>, format |-> "",
           res |-> Ok(<<>>)]

Idle ==
    /\ pc = "idle" /\ cmd = "" /\ config = NoConfig
    /\ idx = 0 /\ results = <<>> /\ all_ok = TRUE /\ exit = -1 /\ err = Ok(<<>>)
    /\ trace = <<>> /\ tags = {} /\ prev = [cmd |-> "", exit |-> -1]

----------------------------------------------------------------------------
(* The format engines called directly: one file, any document, any key *)

EngineInit ==
    /\ \E d \in Docs : fs = [p \in Paths |-> IF p = PCargo THEN d ELSE Missing]
    /\ ro \in {{}, {PCargo}}
    /\ fs0 = fs
    /\ runs = 0
    /\ eng = NoCall
    /\ cfgfile = NoConfig
    /\ Idle

EngineFrame ==
    UNCHANGED <<ro, cfgfile, pc, cmd, config, idx, results, all_ok, exit, err,
                trace, tags, prev>>

ReadVersion(key, format) ==
    /\ eng = NoCall
    /\ UNCHANGED runs
    /\ fs0' = fs
    /\ eng' = [op |-> "read", path |-> PCargo, key |-> key, version |-> <<>>,
               format |-> format, res |-> read_version(fs, PCargo, key, format)]
    /\ UNCHANGED fs
    /\ EngineFrame

WriteVersion(key, version, format) ==
    /\ eng = NoCall
    /\ UNCHANGED runs
    /\ fs0' = fs
    /\ LET written(w) ==
               /\ fs' = w.files
               /\ eng' = [op |-> "write", path |-> PCargo, key |-> key,
                          version |-> version, format |-> format, res |-> w.res]
       IN  written(write_version(fs, ro, PCargo, key, version, format))
    /\ EngineFrame

EngineNext ==
    \/ \E k \in Keys, f \in {"toml", "json"} : ReadVersion(k, f)
    \/ \E k \in Keys, v \in Versions, f \in {"toml", "json"} : WriteVersion(k, v, f)

SpecEngine == EngineInit /\ [][EngineNext]_vars

----------------------------------------------------------------------------
(* The commands (src/src/commands) *)

CheckOk(file, key) ==
    [kind |-> "Ok", file |-> file, key |-> key, expected |-> <<>>, actual |-> <<>>]

Mismatch(file, key, expected, actual) ==
    [kind |-> "Mismatch", file |-> file, key |-> key, expected |-> expected,
     actual |-> actual]

Updated(file, key, old_version, new_version) ==
    [kind |-> "Updated", file |-> file, key |-> key, old_version |-> old_version,
     new_version |-> new_version]

NoChange(file) ==
    [kind |-> "NoChange", file |-> file, key |-> <<>>, old_version |-> <<>>,
     new_version |-> <<>>]

\* check_target: Result<CheckResult>
check_target(files, target, expected_version) ==
    LET compare(actual_version) ==
            IF ~actual_version.ok THEN actual_version
            ELSE IF actual_version.val = expected_version
            THEN Ok(CheckOk(target.file, target.key))
            ELSE Ok(Mismatch(target.file, target.key, expected_version,
                             actual_version.val))
        read(format) ==
            IF format = "none" THEN UnknownFormat(target.file)
            ELSE compare(read_version(files, target.file, target.key, format))
    IN  read(effective_format(target))

\* all_ok following the latest result only
check_all_ok_latest(ok_so_far, result) == result.kind = "Ok"

\* check(): if !result.is_ok() { all_ok = false; }
check_all_ok(ok_so_far, result) == ok_so_far /\ result.kind = "Ok"

\* apply_target without the comparison: every target that can be read is
\* written
apply_target_unconditional(files, readonly, target, new_version) ==
    LET written(current_version, w) ==
            IF ~w.res.ok THEN [res |-> w.res, files |-> w.files, wrote |-> TRUE]
            ELSE [res |-> Ok([kind |-> "Updated", file |-> target.file,
                              key |-> target.key, old_version |-> current_version.val,
                              new_version |-> new_version]),
                  files |-> w.files, wrote |-> TRUE]
        update(format, current_version) ==
            IF ~current_version.ok
            THEN [res |-> current_version, files |-> files, wrote |-> FALSE]
            ELSE written(current_version,
                         write_version(files, readonly, target.file, target.key,
                                       new_version, format))
        read(format) ==
            IF format = "none"
            THEN [res |-> UnknownFormat(target.file), files |-> files, wrote |-> FALSE]
            ELSE update(format, read_version(files, target.file, target.key, format))
    IN  read(effective_format(target))

\* apply_target: [res, files, wrote]; res is Result<ApplyResult>, wrote tells
\* whether write_version was called
apply_target(files, readonly, target, new_version) ==
    LET written(current_version, w) ==
            IF ~w.res.ok THEN [res |-> w.res, files |-> w.files, wrote |-> TRUE]
            ELSE [res |-> Ok(Updated(target.file, target.key, current_version.val,
                                     new_version)),
                  files |-> w.files, wrote |-> TRUE]
        update(format, current_version) ==
            IF ~current_version.ok
            THEN [res |-> current_version, files |-> files, wrote |-> FALSE]
            ELSE IF current_version.val = new_version
            THEN [res |-> Ok(NoChange(target.file)), files |-> files, wrote |-> FALSE]
            ELSE written(current_version,
                         write_version(files, readonly, target.file, target.key,
                                       new_version, format))
        read(format) ==
            IF format = "none"
            THEN [res |-> UnknownFormat(target.file), files |-> files, wrote |-> FALSE]
            ELSE update(format, read_version(files, target.file, target.key, format))
    IN  read(effective_format(target))

\* the body of check_silent's loop: Result<bool>, false at a value that differs
check_silent_target(files, target, version) ==
    LET compare(actual_version) ==
            IF ~actual_version.ok THEN actual_version
            ELSE Ok(actual_version.val = version)
        read(format) ==
            IF format = "none" THEN UnknownFormat(target.file)
            ELSE compare(read_version(files, target.file, target.key, format))
    IN  read(effective_format(target))

----------------------------------------------------------------------------
(* git (src/src/git.rs).  What git answers is an input of each call:      *)
(* "true" or "false" for the exit status or the listing, "fail" when the   *)
(* command could not be run.                                               *)

GitAnswers == {"true", "false", "fail"}

GitCommand == Err("GitCommand", NoPath, <<>>)

ensure_git_repository(inside) ==
    IF inside = "fail" THEN GitCommand
    ELSE IF inside = "false" THEN Err("NotGitRepository", NoPath, <<>>)
    ELSE Ok(<<>>)

\* ensure_clean: the index is asked only when the working tree is clean
ensure_clean(tree, index) ==
    IF tree = "fail" THEN GitCommand
    ELSE IF tree = "false" THEN Err("DirtyWorkingTree", NoPath, <<>>)
    ELSE IF index = "fail" THEN GitCommand
    ELSE IF index = "false" THEN Err("DirtyIndex", NoPath, <<>>)
    ELSE Ok(<<>>)

\* ensure_tag_not_exists that does not look at the listing
ensure_tag_not_exists_unlisted(exists, tag) ==
    IF exists = "fail" THEN GitCommand ELSE Ok(<<>>)

ensure_tag_not_exists(exists, tag) ==
    IF exists = "fail" THEN GitCommand
    ELSE IF exists = "true" THEN Err("TagExists", NoPath, tag)
    ELSE Ok(<<>>)

----------------------------------------------------------------------------
(* main (src/src/main.rs), one step at a time *)

SUCCESS == 0

MISMATCH == 1

ERROR == 2

MaxTargets == 2

MaxRuns == 2

Ev(op, target, ans, arg) == [op |-> op, target |-> target, ans |-> ans, arg |-> arg]

\* an exit code that tells a version mismatch from the other errors
error_exit_by_kind(e) == IF e.err = "VersionMismatch" THEN MISMATCH ELSE ERROR

\* main(): Err(e) => ExitCode::from(exit_code::ERROR as u8), in every arm
error_exit(e) == ERROR

\* check(): Ok(true) => SUCCESS, Ok(false) => MISMATCH
check_exit(ok) == IF ok THEN SUCCESS ELSE MISMATCH

Fail(e) == pc' = "done" /\ exit' = error_exit(e) /\ err' = e

\* main() up to the match on the command: Config::load, exit code 2 when
\* it fails
Start(c) ==
    /\ pc = "idle"
    /\ runs < MaxRuns
    /\ runs' = runs + 1
    /\ cmd' = c
    /\ fs0' = fs
    /\ trace' = <<>>
    /\ results' = <<>>
    /\ all_ok' = TRUE
    /\ idx' = 1
    /\ LET loaded(l) ==
               IF l.ok
               THEN /\ config' = l.val
                    /\ pc' = (IF c = "tag" THEN "tag_repo" ELSE c)
                    /\ exit' = -1
                    /\ err' = Ok(<<>>)
               ELSE /\ config' = NoConfig
                    /\ Fail(l)
       IN  loaded(load(cfgfile))
    /\ UNCHANGED <<fs, ro, cfgfile, tags, prev, eng>>

\* one turn of check()'s loop
CheckStep ==
    /\ pc = "check"
    /\ idx <= Len(config.targets)
    /\ LET checked(format, r) ==
               /\ trace' = IF format = "none" THEN trace
                           ELSE Append(trace, Ev("read", idx,
                                                 IF r.ok THEN r.val.kind ELSE r.err,
                                                 <<format>>))
               /\ IF r.ok
                  THEN /\ results' = Append(results, r.val)
                       /\ all_ok' = check_all_ok(all_ok, r.val)
                       /\ idx' = idx + 1
                       /\ UNCHANGED <<pc, exit, err>>
                  ELSE /\ Fail(r)
                       /\ UNCHANGED <<results, all_ok, idx>>
       IN  checked(effective_format(config.targets[idx]),
                   check_target(fs, config.targets[idx], config.version))
    /\ UNCHANGED <<fs, ro, cfgfile, cmd, config, tags, runs, fs0, prev, eng>>

\* check() returns Ok(all_ok); main maps it to SUCCESS or MISMATCH
CheckReturn ==
    /\ pc = "check"
    /\ idx > Len(config.targets)
    /\ pc' = "done"
    /\ exit' = check_exit(all_ok)
    /\ UNCHANGED <<fs, ro, cfgfile, cmd, config, idx, results, all_ok, err, trace,
                   tags, runs, fs0, prev, eng>>

\* apply()'s loop going on to the next target after a failure
ApplyStep_skipping ==
    /\ pc = "apply"
    /\ idx <= Len(config.targets)
    /\ LET applied(a) ==
               /\ trace' = Append(trace, Ev("read", idx, IF a.res.ok THEN "Ok" ELSE a.res.err,
                                            <<effective_format(config.targets[idx])>>))
               /\ fs' = a.files
               /\ idx' = idx + 1
               /\ results' = IF a.res.ok THEN Append(results, a.res.val) ELSE results
               /\ UNCHANGED <<pc, exit, err>>
       IN  applied(apply_target(fs, ro, config.targets[idx], config.version))
    /\ UNCHANGED <<ro, cfgfile, cmd, config, all_ok, tags, runs, fs0, prev, eng>>

\* one turn of apply()'s loop
ApplyStep ==
    /\ pc = "apply"
    /\ idx <= Len(config.targets)
    /\ LET reads(format, a) ==
               IF format = "none" THEN <<>>
               ELSE <<Ev("read", idx, IF a.res.ok \/ a.wrote THEN "Ok" ELSE a.res.err,
                         <<format>>)>>
           writes(format, a) ==
               IF a.wrote
               THEN <<Ev("write", idx, IF a.res.ok THEN "Ok" ELSE a.res.err, <<format>>)>>
               ELSE <<>>
           applied(format, a) ==
               /\ trace' = trace \o reads(format, a) \o writes(format, a)
               /\ fs' = a.files
               /\ IF a.res.ok
                  THEN /\ results' = Append(results, a.res.val)
                       /\ idx' = idx + 1
                       /\ UNCHANGED <<pc, exit, err>>
                  ELSE /\ Fail(a.res)
                       /\ UNCHANGED <<results, idx>>
       IN  applied(effective_format(config.targets[idx]),
                   apply_target(fs, ro, config.targets[idx], config.version))
    /\ UNCHANGED <<ro, cfgfile, cmd, config, all_ok, tags, runs, fs0, prev, eng>>

ApplyReturn ==
    /\ pc = "apply"
    /\ idx > Len(config.targets)
    /\ pc' = "done"
    /\ exit' = SUCCESS
    /\ UNCHANGED <<fs, ro, cfgfile, cmd, config, idx, results, all_ok, err, trace,
                   tags, runs, fs0, prev, eng>>

TagFrame == UNCHANGED <<fs, ro, cfgfile, cmd, config, results, all_ok, runs, fs0, prev, eng>>

\* tag() 1: git::ensure_git_repository()?
TagRepository(inside) ==
    /\ pc = "tag_repo"
    /\ trace' = Append(trace, Ev("is_inside_work_tree", 0, inside, <<>>))
    /\ LET r == ensure_git_repository(inside)
       IN  IF r.ok THEN pc' = "tag_verify" /\ UNCHANGED <<exit, err>> ELSE Fail(r)
    /\ UNCHANGED <<idx, tags>>
    /\ TagFrame

\* check_silent's loop reading on after a value that differs, as check()'s
\* loop does
TagVerifyStep_exhaustive ==
    /\ pc = "tag_verify"
    /\ idx <= Len(config.targets)
    /\ LET verified(format, r) ==
               /\ trace' = IF format = "none" THEN trace
                           ELSE Append(trace, Ev("read", idx,
                                                 IF ~r.ok THEN r.err
                                                 ELSE IF r.val THEN "Ok" ELSE "Mismatch",
                                                 <<format>>))
               /\ IF ~r.ok THEN Fail(r) /\ UNCHANGED idx
                  ELSE IF ~r.val /\ idx = Len(config.targets)
                  THEN Fail(Err("VersionMismatch", NoPath, <<>>)) /\ UNCHANGED idx
                  ELSE idx' = idx + 1 /\ UNCHANGED <<pc, exit, err>>
       IN  verified(effective_format(config.targets[idx]),
                    check_silent_target(fs, config.targets[idx], config.version))
    /\ UNCHANGED tags
    /\ TagFrame

\* tag() 2: one turn of check_silent's loop; false ends tag() with
\* VersionMismatch
TagVerifyStep ==
    /\ pc = "tag_verify"
    /\ idx <= Len(config.targets)
    /\ LET verified(format, r) ==
               /\ trace' = IF format = "none" THEN trace
                           ELSE Append(trace, Ev("read", idx,
                                                 IF ~r.ok THEN r.err
                                                 ELSE IF r.val THEN "Ok" ELSE "Mismatch",
                                                 <<format>>))
               /\ IF ~r.ok THEN Fail(r) /\ UNCHANGED idx
                  ELSE IF ~r.val
                  THEN Fail(Err("VersionMismatch", NoPath, <<>>)) /\ UNCHANGED idx
                  ELSE idx' = idx + 1 /\ UNCHANGED <<pc, exit, err>>
       IN  verified(effective_format(config.targets[idx]),
                    check_silent_target(fs, config.targets[idx], config.version))
    /\ UNCHANGED tags
    /\ TagFrame

\* check_silent returns Ok(true)
TagVerifyReturn ==
    /\ pc = "tag_verify"
    /\ idx > Len(config.targets)
    /\ pc' = "tag_clean"
    /\ UNCHANGED <<idx, tags, exit, err, trace>>
    /\ TagFrame

\* tag() 3: git::ensure_clean()?
TagClean(tree, index) ==
    /\ pc = "tag_clean"
    /\ trace' = trace \o <<Ev("is_working_tree_clean", 0, tree, <<>>)>>
                      \o (IF tree = "true" THEN <<Ev("is_index_clean", 0, index, <<>>)>>
                          ELSE <<>>)
    /\ LET r == ensure_clean(tree, index)
       IN  IF r.ok THEN pc' = "tag_exists" /\ UNCHANGED <<exit, err>> ELSE Fail(r)
    /\ UNCHANGED <<idx, tags>>
    /\ TagFrame

\* tag() 4: git::ensure_tag_not_exists(&tag_name)?; a tag this program made
\* is listed
TagExists(exists) ==
    /\ pc = "tag_exists"
    /\ tag_name(config) \in tags => exists # "false"
    /\ trace' = Append(trace, Ev("tag_exists", 0, exists, tag_name(config)))
    /\ LET r == ensure_tag_not_exists(exists, tag_name(config))
       IN  IF r.ok THEN pc' = "tag_create" /\ UNCHANGED <<exit, err>> ELSE Fail(r)
    /\ UNCHANGED <<idx, tags>>
    /\ TagFrame

\* git::create_annotated_tag(&tag_name, &message)?
TagCreate(created) ==
    /\ pc = "tag_create"
    /\ trace' = Append(trace, Ev("create_annotated_tag", 0, created, tag_name(config)))
    /\ pc' = "done"
    /\ IF created = "true"
       THEN tags' = tags \cup {tag_name(config)} /\ exit' = SUCCESS /\ UNCHANGED err
       ELSE exit' = error_exit(GitCommand) /\ err' = GitCommand /\ UNCHANGED tags
    /\ UNCHANGED idx
    /\ TagFrame

\* the process ends; the next run starts from the files it left
Exit ==
    /\ pc = "done"
    /\ pc' = "idle"
    /\ prev' = [cmd |-> cmd, exit |-> exit]
    /\ cmd' = ""
    /\ config' = NoConfig
    /\ idx' = 0
    /\ results' = <<>>
    /\ all_ok' = TRUE
    /\ exit' = -1
    /\ err' = Ok(<<>>)
    /\ trace' = <<>>
    /\ UNCHANGED <<fs, ro, cfgfile, tags, runs, fs0, eng>>

----------------------------------------------------------------------------
(* The runs explored: a version.toml, the files of the working tree *)

CfgVersions == {V100}

TargetSet ==
    { Target(PCargo, Key1("version"), "none"),
      Target(PCargo, Key2("project", "version"), "none"),
      Target(PPackage, Key1("version"), "none"),
      Target(PPackage, <<"a", ".", ".", "b">>, "none"),
      Target(PVersion, Key1("version"), "toml"),
      Target(PHidden, Key1("version"), "none") }

\* the target lists of at most MaxTargets targets
TargetLists == UNION {[1..n -> TargetSet] : n \in 0..MaxTargets}

ConfigFiles ==
    { ConfigFile("missing", <<>>, <<>>), ConfigFile("unreadable", <<>>, <<>>),
      ConfigFile("malformed", <<>>, <<>>) }
    \cup { ConfigFile("ok", v, ts) : v \in CfgVersions, ts \in TargetLists }

FileSystems ==
    { [p \in Paths |->
          IF p = PCargo THEN c
          ELSE IF p = PPackage THEN j
          ELSE IF p \in {PVersion, PReadme} THEN TomlManifest(V100, V100)
          ELSE Missing] :
      c \in {Missing, TomlManifest(V100, V120), TomlManifest(VQB, V100)},
      j \in {Junk, JsonManifest(V100, V100, "compact"), JsonManifest(VQB, V100, "pretty")} }

Init ==
    /\ cfgfile \in ConfigFiles
    /\ fs \in FileSystems
    /\ ro \in {{}, {PCargo}}
    /\ fs0 = fs
    /\ runs = 0
    /\ eng = NoCall
    /\ Idle

Next ==
    \/ \E c \in {"check", "apply", "tag"} : Start(c)
    \/ CheckStep
    \/ CheckReturn
    \/ ApplyStep
    \/ ApplyReturn
    \/ \E inside \in GitAnswers : TagRepository(inside)
    \/ TagVerifyStep
    \/ TagVerifyReturn
    \/ \E tree, index \in GitAnswers : TagClean(tree, index)
    \/ \E exists \in GitAnswers : TagExists(exists)
    \/ \E created \in {"true", "fail"} : TagCreate(created)
    \/ Exit

Spec == Init /\ [][Next]_vars

----------------------------------------------------------------------------
(* Properties *)

\* what reading a target now returns (for a target whose format is known)
Current(t) == read_version(fs, t.file, t.key, effective_format(t))

\* how a target stands now: "error" when it cannot be read, else "match" or
\* "differ" as its value equals config.version or not
Verdict(t) ==
    LET tell(r) == IF ~r.ok THEN "error"
                   ELSE IF r.val = config.version THEN "match" ELSE "differ"
    IN  IF effective_format(t) = "none" THEN "error" ELSE tell(Current(t))

CanRead(t) == Verdict(t) # "error"

Matches(t) == Verdict(t) = "match"

Loaded == config # NoConfig

\* the i-th call tag() makes over n targets when every check passes
TagPlan(n, i) ==
    IF i = 1 THEN <<"is_inside_work_tree", 0>>
    ELSE IF i <= n + 1 THEN <<"read", i - 1>>
    ELSE IF i = n + 2 THEN <<"is_working_tree_clean", 0>>
    ELSE IF i = n + 3 THEN <<"is_index_clean", 0>>
    ELSE IF i = n + 4 THEN <<"tag_exists", 0>>
    ELSE <<"create_annotated_tag", 0>>

Passed(e) ==
    IF e.op = "read" THEN e.ans = "Ok"
    ELSE IF e.op = "tag_exists" THEN e.ans = "false"
    ELSE e.ans = "true"

\* the error of a check that did not pass
ErrorOf(e) ==
    IF e.op = "read" THEN (IF e.ans = "Mismatch" THEN "VersionMismatch" ELSE e.ans)
    ELSE IF e.ans = "fail" THEN "GitCommand"
    ELSE IF e.op = "is_inside_work_tree" THEN "NotGitRepository"
    ELSE IF e.op = "is_working_tree_clean" THEN "DirtyWorkingTree"
    ELSE IF e.op = "is_index_clean" THEN "DirtyIndex"
    ELSE IF e.op = "tag_exists" THEN "TagExists"
    ELSE "GitCommand"

\* C1: in a tag run the calls made are a prefix of: repository, every target
\* in order, working tree, index, tag listing, tag creation; every call
\* before the last one passed, so nothing runs after a check that fails and
\* the tag is created only after all of them passed; a target's read passes
\* exactly when its value equals config.version; the tag asked for and
\* created is prefix + version; a run that ends at a failing check ends with
\* that check's error (NotGitRepository, VersionMismatch, DirtyWorkingTree,
\* DirtyIndex, TagExists), exit code 2 and no tag created.
C1_TagGate ==
    (cmd = "tag" /\ Loaded) =>
        /\ Len(trace) <= Len(config.targets) + 5
        /\ \A i \in 1..Len(trace) :
               /\ <<trace[i].op, trace[i].target>> = TagPlan(Len(config.targets), i)
               /\ i < Len(trace) => Passed(trace[i])
               /\ trace[i].op \in {"tag_exists", "create_annotated_tag"}
                      => trace[i].arg = config.tag_prefix \o config.version
        /\ (trace # <<>> /\ Last(trace).op = "read") =>
               Matches(config.targets[Last(trace).target]) = Passed(Last(trace))
        /\ (pc = "done" /\ trace # <<>> /\ ~Passed(Last(trace))) =>
               /\ err.err = ErrorOf(Last(trace))
               /\ exit = ERROR
               /\ (Last(trace).op = "tag_exists" /\ Last(trace).ans = "true")
                      => err.key = config.tag_prefix \o config.version
               /\ prev.cmd = "" => tags = {}
        /\ (pc = "done" /\ trace # <<>> /\ Passed(Last(trace))) =>
               IF Last(trace).op = "create_annotated_tag"
               THEN exit = SUCCESS /\ config.tag_prefix \o config.version \in tags
               ELSE err.err = "UnknownFormat" /\ (prev.cmd = "" => tags = {})

\* a tag run stopped by the tag listing alone: both targets match and the
\* tree and the index are clean
C1_Witness ==
    /\ cmd = "tag" /\ pc = "done" /\ err.err = "TagExists"
    /\ Len(config.targets) = 2 /\ Len(trace) = 6 /\ tags = {}

\* the outcome check() holds for target i, whose value is cur
C2_Outcome(i, cur) ==
    /\ cur.ok
    /\ results[i] =
           IF cur.val = config.version
           THEN CheckOk(config.targets[i].file, config.targets[i].key)
           ELSE Mismatch(config.targets[i].file, config.targets[i].key,
                         config.version, cur.val)

\* C2: a check run visits the targets in configuration order and holds one
\* outcome per target visited, Ok where the value equals config.version and
\* Mismatch(expected, actual) where it differs, a mismatch not ending the
\* loop; when every target can be read it ends with all N outcomes, and with
\* "true" (exit code 0) exactly when every value equals config.version.
C2_CheckEvaluatesAll ==
    (cmd = "check" /\ Loaded) =>
        /\ \A i \in 1..Len(results) : trace[i].op = "read" /\ trace[i].target = i
        /\ \A i \in 1..Len(results) :
               (i = Len(results) \/ pc = "done") => C2_Outcome(i, Current(config.targets[i]))
        /\ pc = "check" => Len(results) = idx - 1 /\ Len(trace) = Len(results)
        /\ pc = "done" =>
               IF \A i \in 1..Len(config.targets) : CanRead(config.targets[i])
               THEN /\ Len(results) = Len(config.targets)
                    /\ Len(trace) = Len(results)
                    /\ all_ok = (\A i \in 1..Len(config.targets) :
                                     Matches(config.targets[i]))
                    /\ exit = (IF all_ok THEN SUCCESS ELSE MISMATCH)
                    /\ err.ok
               ELSE exit = ERROR

\* the first of two targets differs, the second is still evaluated
C2_Witness ==
    /\ cmd = "check" /\ pc = "done" /\ Len(results) = 2
    /\ results[1].kind = "Mismatch" /\ results[2].kind = "Ok" /\ exit = MISMATCH

\* what one turn of apply()'s loop does with target t, whose value is cur
C3_Turn(t, cur) ==
    cur.ok =>
        IF cur.val = config.version
        THEN /\ fs' = fs
             /\ results' = Append(results, NoChange(t.file))
             /\ \A i \in (Len(trace) + 1)..Len(trace') : trace'[i].op # "write"
        ELSE /\ \E i \in (Len(trace) + 1)..Len(trace') :
                    trace'[i].op = "write" /\ trace'[i].target = idx
             /\ IF t.file \in ro
                THEN fs' = fs /\ results' = results /\ pc' = "done" /\ ~err'.ok
                ELSE /\ fs'[t.file] # fs[t.file]
                     /\ \A p \in Paths \ {t.file} : fs'[p] = fs[p]
                     /\ results' = Append(results, Updated(t.file, t.key, cur.val,
                                                           config.version))

\* C3: a turn of apply()'s loop on a target whose value equals
\* config.version writes nothing (every file is as before) and adds NoChange;
\* on a target whose value differs it calls the write, and when the file can
\* be written the file changes, no other file does, and it adds
\* Updated(old_version = the value read, new_version = config.version).
C3_ApplyWritesOnDifference ==
    [][(pc = "apply" /\ idx <= Len(config.targets)
        /\ effective_format(config.targets[idx]) # "none")
       => C3_Turn(config.targets[idx], Current(config.targets[idx]))]_vars

\* an apply run that left its first target alone and updated the second
C3_Witness ==
    /\ cmd = "apply" /\ Len(results) = 2
    /\ results[1].kind = "NoChange" /\ results[2].kind = "Updated" /\ fs # fs0

\* the paths a parsed file holds: every value's path, and every TOML table's
LeafPaths(content, format) ==
    IF format = "toml"
    THEN {x.path : x \in {toml_parse(content).doc[i] : i \in 1..Len(toml_parse(content).doc)}
                       \ {y \in {toml_parse(content).doc[i] :
                                     i \in 1..Len(toml_parse(content).doc)} :
                             y.kind = "comment"}}
    ELSE {json_from_str(content).value[i].path : i \in 1..Len(json_from_str(content).value)}

Parses(content, format) ==
    IF format = "toml" THEN toml_parse(content).ok ELSE json_from_str(content).ok

\* every segment of the key names something: the segments lead to a value or
\* to a table (object)
Resolves(content, format, key) ==
    \E q \in LeafPaths(content, format) : IsPrefix(split(key), q)

\* the path from the root of the value on line i: in TOML, below the table
\* header that stands nearest above it
LinePath(content, i) ==
    IF content.lines[i].kind = "kv"
          /\ \E j \in 1..(i - 1) : content.lines[j].kind = "table"
    THEN content.lines[SetMax({j \in 1..(i - 1) : content.lines[j].kind = "table"})].path
         \o content.lines[i].path
    ELSE content.lines[i].path

ValueLines(content, key) ==
    {i \in 1..Len(content.lines) :
        content.lines[i].kind \in {"kv", "member"} /\ LinePath(content, i) = split(key)}

\* the raw text of the value at the key in the file as written (for JSON, of
\* the last member of that path)
RawAt(content, key) == content.lines[SetMax(ValueLines(content, key))].raw

\* C4: a read, by either engine, of a key of which some segment is absent
\* from the document fails with KeyNotFound, and a KeyNotFound names the file
\* and the whole dotted key that was asked for.
C4_KeyNotFoundFullPath ==
    (eng.op = "read" /\ fs0[eng.path].syntax # "missing"
     /\ Parses(fs0[eng.path], eng.format)) =>
        /\ ~Resolves(fs0[eng.path], eng.format, eng.key)
               => eng.res = [ok |-> FALSE, val |-> <<>>, err |-> "KeyNotFound",
                             file |-> eng.path, key |-> eng.key]
        /\ eng.res.err = "KeyNotFound" => ~Resolves(fs0[eng.path], eng.format, eng.key)

\* a.b.c is asked of a TOML file that holds a.b
C4_Witness ==
    /\ eng.op = "read" /\ eng.format = "toml" /\ eng.key = Key3("a", "b", "c")
    /\ Resolves(fs0[eng.path], "toml", Key2("a", "b"))
    /\ eng.res.err = "KeyNotFound" /\ eng.res.key = Key3("a", "b", "c")

\* C5: a read, by either engine, of a key whose segments all exist returns a
\* value only when the file holds a quoted string there, and then the string
\* that text denotes; for anything else (a number, a table, an object) it
\* fails with ValueNotString.
C5_NonStringLeafRejected ==
    (eng.op = "read" /\ fs0[eng.path].syntax # "missing"
     /\ Parses(fs0[eng.path], eng.format)
     /\ Resolves(fs0[eng.path], eng.format, eng.key)) =>
        IF /\ ValueLines(fs0[eng.path], eng.key) # {}
           /\ Head(RawAt(fs0[eng.path], eng.key)) = DQ
        THEN /\ eng.res.ok
             /\ Quote(eng.res.val) = RawAt(fs0[eng.path], eng.key)
        ELSE eng.res = [ok |-> FALSE, val |-> <<>>, err |-> "ValueNotString",
                        file |-> eng.path, key |-> eng.key]

\* the number at "count" is asked of a JSON file
C5_Witness ==
    /\ eng.op = "read" /\ eng.format = "json" /\ eng.key = Key1("count")
    /\ eng.res.err = "ValueNotString"
    /\ RawAt(fs0[eng.path], eng.key) = <<"1">>

\* C6: when a file that can be written parses and holds a string at the key,
\* write_version(path, key, v) succeeds and read_version(path, key) then
\* returns v, in either format.
C6_WriteReadRoundTrip ==
    (eng.op = "write" /\ eng.path \notin ro
     /\ read_version(fs0, eng.path, eng.key, eng.format).ok) =>
        /\ eng.res.ok
        /\ read_version(fs, eng.path, eng.key, eng.format).ok
        /\ read_version(fs, eng.path, eng.key, eng.format).val = eng.version

\* a version holding a quote and a backslash is written below a table
C6_Witness ==
    /\ eng.op = "write" /\ eng.res.ok /\ eng.version = VQB
    /\ eng.key = Key2("project", "version") /\ fs # fs0
    /\ read_version(fs0, eng.path, eng.key, eng.format).val # VQB

\* the comments of a file, in order: the comment lines and what trails a
\* value on its line
Comments(content) == [i \in 1..Len(content.lines) |-> content.lines[i].trail]

KeyOrder(content) ==
    [i \in 1..Len(content.lines) |-> <<content.lines[i].kind, content.lines[i].path>>]

\* C7: a successful TOML write_version leaves every comment of the file as
\* it was, the comment after the replaced value included, and the keys in
\* their order.
C7_TomlWriteKeepsComments ==
    (eng.op = "write" /\ eng.format = "toml" /\ eng.res.ok) =>
        /\ Comments(fs[eng.path]) = Comments(fs0[eng.path])
        /\ KeyOrder(fs[eng.path]) = KeyOrder(fs0[eng.path])

AllRead == Loaded /\ \A i \in 1..Len(config.targets) : CanRead(config.targets[i])

AllMatch == Loaded /\ \A i \in 1..Len(config.targets) : Matches(config.targets[i])

\* C8: a finished run has exit code 0, 1 or 2.  It is 2 exactly when the run
\* ended with an error (a configuration that did not load included).  A
\* check run exits 0 exactly when every target matches and 1 exactly when
\* every target was read and one differs.  An apply or tag run exits 0 (all
\* targets applied; the tag created) or 2, never 1.
C8_ExitCodes ==
    pc = "done" =>
        /\ exit \in {SUCCESS, MISMATCH, ERROR}
        /\ (exit = ERROR) = (~err.ok)
        /\ ~Loaded => exit = ERROR
        /\ cmd = "check" =>
               exit = (IF ~AllRead THEN ERROR ELSE IF AllMatch THEN SUCCESS ELSE MISMATCH)
        /\ cmd = "apply" =>
               /\ exit # MISMATCH
               /\ (exit = SUCCESS) = (Loaded /\ Len(results) = Len(config.targets))
        /\ cmd = "tag" =>
               /\ exit # MISMATCH
               /\ (exit = SUCCESS) =
                      (/\ trace # <<>>
                       /\ Last(trace).op = "create_annotated_tag"
                       /\ Last(trace).ans = "true")

\* a tag run whose verify step found a version that differs
C8_Witness ==
    /\ pc = "done" /\ cmd = "tag" /\ err.err = "VersionMismatch" /\ exit = ERROR
    /\ prev.cmd = "check" /\ prev.exit = MISMATCH

HasEmptySegment(key) == \E i \in 1..Len(split(key)) : split(key)[i] = <<>>

\* the answers of a read that went through the document
Traversed == {"Ok", "Mismatch", "KeyNotFound", "ValueNotString"}

\* C9: no configuration is loaded with a target whose key is empty or has an
\* empty segment, so no document is ever traversed for such a target.
C9_EmptySegmentRejected ==
    \A i \in 1..Len(trace) :
        (trace[i].op = "read" /\ trace[i].ans \in Traversed)
            => ~HasEmptySegment(config.targets[trace[i].target].key)

\* the format each file of the tree has by its name
Inferred(file) ==
    IF file = PCargo THEN "toml" ELSE IF file = PPackage THEN "json" ELSE "none"

Expected(t) == IF t.format # "none" THEN t.format ELSE Inferred(t.file)

\* the run stopped at target idx, after tag's repository check if it is a tag
StoppedAtTarget ==
    /\ pc = "done" /\ Loaded /\ idx <= Len(config.targets)
    /\ cmd = "tag" => (trace # <<>> /\ trace[1].ans = "true")

\* C10: every read or write of a target is done in the target's explicit
\* format if it declares one and else in the format of the file's extension
\* (Cargo.toml: toml, package.json: json, VERSION, README.md, .toml: none);
\* a configuration with a target that has neither still loads, and a run that
\* comes to such a target stops there with UnknownFormat for its file and
\* exit code 2, without that target having been read or written.
C10_EffectiveFormat ==
    Loaded =>
        /\ \A i \in 1..Len(trace) :
               trace[i].op \in {"read", "write"} =>
                   /\ Expected(config.targets[trace[i].target]) # "none"
                   /\ trace[i].arg = <<Expected(config.targets[trace[i].target])>>
        /\ StoppedAtTarget =>
               /\ (Expected(config.targets[idx]) = "none")
                      = (err = [ok |-> FALSE, val |-> <<>>, err |-> "UnknownFormat",
                                file |-> config.targets[idx].file, key |-> <<>>])
               /\ Expected(config.targets[idx]) = "none" =>
                      /\ exit = ERROR
                      /\ \A i \in 1..Len(trace) : trace[i].target # idx
        /\ (pc \in {"check", "apply", "tag_verify"} /\ idx <= Len(config.targets)) =>
               \A i \in 1..Len(trace) : trace[i].target # idx
        /\ \A p \in Paths :
               effective_format([file |-> p, key |-> Key1("version"), format |-> "none"])
                   = Inferred(p)

\* a file without extension read in its explicit format, then a target with
\* neither
C10_Witness ==
    /\ pc = "done" /\ cmd = "check" /\ err.err = "UnknownFormat" /\ err.file = PHidden
    /\ Len(trace) = 1 /\ trace[1].arg = <<"toml">>
    /\ config.targets[1].file = PVersion /\ config.targets[1].format = "toml"

\* the file holds a quoted string at the key
StringAt(content, key) ==
    ValueLines(content, key) # {} /\ Head(RawAt(content, key)) = DQ

\* C11: write_version, in either engine, fails with TargetParse on content
\* that does not parse, with KeyNotFound when a segment of the key is absent
\* and with ValueNotString when the key leads to something that is not a
\* string; whenever it fails the file is as it was, and when it succeeds the
\* file holds the same keys as before: no key is created.
C11_WriteOnlyAfterResolution ==
    (eng.op = "write" /\ fs0[eng.path].syntax # "missing") =>
        /\ ~Parses(fs0[eng.path], eng.format)
               => eng.res = [ok |-> FALSE, val |-> <<>>, err |-> "TargetParse",
                             file |-> eng.path, key |-> <<>>]
        /\ (Parses(fs0[eng.path], eng.format)
            /\ ~Resolves(fs0[eng.path], eng.format, eng.key))
               => eng.res = [ok |-> FALSE, val |-> <<>>, err |-> "KeyNotFound",
                             file |-> eng.path, key |-> eng.key]
        /\ (Parses(fs0[eng.path], eng.format)
            /\ Resolves(fs0[eng.path], eng.format, eng.key)
            /\ ~StringAt(fs0[eng.path], eng.key))
               => eng.res = [ok |-> FALSE, val |-> <<>>, err |-> "ValueNotString",
                             file |-> eng.path, key |-> eng.key]
        /\ ~eng.res.ok => fs = fs0
        /\ eng.res.ok =>
               /\ Parses(fs0[eng.path], eng.format)
               /\ StringAt(fs0[eng.path], eng.key)
               /\ LeafPaths(fs[eng.path], eng.format) = LeafPaths(fs0[eng.path], eng.format)

\* what does hold of a failing write_version: the file is as it was, and a
\* write that succeeds creates no key
C11_FailedWriteLeavesFile ==
    (eng.op = "write") =>
        /\ ~eng.res.ok => fs = fs0
        /\ eng.res.ok =>
               /\ StringAt(fs0[eng.path], eng.key)
               /\ LeafPaths(fs[eng.path], eng.format) = LeafPaths(fs0[eng.path], eng.format)

\* an apply run, in any state
C12_Run ==
    (cmd = "apply" /\ Loaded) =>
        /\ Len(results) = idx - 1
        /\ \A i \in 1..Len(trace) :
               /\ trace[i].target <= idx /\ trace[i].target <= Len(config.targets)
               /\ i < Len(trace) => trace[i].target <= trace[i + 1].target
        /\ (pc = "done" /\ exit = SUCCESS) => idx = Len(config.targets) + 1
        /\ (pc = "done" /\ exit # SUCCESS) =>
               /\ idx <= Len(config.targets)
               /\ ~err.ok
               /\ err.err # "UnknownFormat" =>
                      /\ err.file = config.targets[idx].file
                      /\ \E i \in 1..Len(trace) : trace[i].target = idx
               /\ \A i \in 1..(idx - 1) :
                      results[i].kind = "Updated" => Matches(config.targets[i])

\* the turn that fails, and what follows it
C12_Turn ==
    /\ (pc = "apply" /\ pc' = "done" /\ exit' # SUCCESS) =>
           fs' = fs /\ results' = results /\ idx' = idx
    /\ pc = "done" => fs' = fs

\* C12: when a target k of an apply run fails, the run ends there with that
\* target's error: there is one outcome for each of the targets 1..k-1, those
\* that were updated still hold config.version, the failing turn changes no
\* file, and no target after k is read or written (nothing is, once the run
\* has ended).
C12_ApplyStopsAtFailure == []C12_Run /\ [][C12_Turn]_vars

\* the first target was updated, the second does not parse
C12_Witness ==
    /\ cmd = "apply" /\ pc = "done" /\ exit = ERROR /\ err.err = "TargetParse"
    /\ idx = 2 /\ Len(config.targets) = 2
    /\ results[1].kind = "Updated" /\ fs # fs0

\* the kinds of error.rs that are about the configuration
ConfigKinds == {"ConfigNotFound", "ConfigRead", "ConfigParse"}

\* C13: a failure of a configuration kind is reported only while no target
\* file has been read or written; a run that has touched a target fails only
\* with a per-target or source-control kind.
C13_ConfigErrorsBeforeTargets ==
    (~err.ok /\ err.err \in ConfigKinds) => trace = <<>>

\* what does hold: Config::load fails only before any target is touched, and a
\* configuration kind reported later comes from a refused fs::write
C13_LoadFailsBeforeTargets ==
    /\ ~Loaded => trace = <<>>
    /\ (~err.ok /\ err.err \in ConfigKinds /\ trace # <<>>) =>
           /\ err = IoError(config.targets[idx].file)
           /\ Last(trace) = Ev("write", idx, "ConfigRead", <<effective_format(config.targets[idx])>>)

\* the kinds of error.rs that a target's read gives
TargetKinds ==
    {"TargetNotFound", "TargetParse", "KeyNotFound", "ValueNotString", "UnknownFormat"}

\* the failure of reading a target that cannot be read
TargetError(t) ==
    IF effective_format(t) = "none" THEN UnknownFormat(t.file) ELSE Current(t)

\* the targets before the i-th all hold config.version
MatchBefore(i) == \A j \in 1..(i - 1) : Matches(config.targets[j])

\* check_silent has returned Ok(true) / Ok(false) / an error
C14_SilentTrue ==
    (pc = "tag_clean") =>
        /\ AllMatch
        /\ prev.cmd = "check" => prev.exit = SUCCESS

C14_SilentFalse ==
    (pc = "done" /\ ~err.ok /\ err.err = "VersionMismatch") =>
        /\ idx <= Len(config.targets)
        /\ Verdict(config.targets[idx]) = "differ"
        /\ MatchBefore(idx)
        /\ \A i \in 1..Len(trace) : trace[i].target <= idx
        /\ Last(trace) = Ev("read", idx, "Mismatch", <<effective_format(config.targets[idx])>>)
        /\ prev.cmd = "check" => prev.exit # SUCCESS
        /\ (prev.cmd = "check" /\ AllRead) => prev.exit = MISMATCH

C14_SilentError ==
    (pc = "done" /\ ~err.ok /\ err.err \in TargetKinds) =>
        /\ idx <= Len(config.targets)
        /\ Verdict(config.targets[idx]) = "error"
        /\ MatchBefore(idx)
        /\ err = TargetError(config.targets[idx])
        /\ prev.cmd = "check" => prev.exit = ERROR

\* a check run that ends with a target's error ends with the error of the
\* first target that cannot be read
C14_CheckError ==
    (cmd = "check" /\ Loaded /\ pc = "done" /\ exit = ERROR) =>
        /\ idx <= Len(config.targets)
        /\ err = TargetError(config.targets[idx])
        /\ ~CanRead(config.targets[idx])
        /\ \A j \in 1..(idx - 1) : CanRead(config.targets[j])

\* C14: check_silent, as tag runs it, goes through the targets in order and
\* returns false at the first whose value differs from config.version, reading
\* no target after it, so that tag ends with VersionMismatch whatever the later
\* targets hold; it returns true only when every target matches; it fails with
\* the error of a target that cannot be read when every target before it
\* matches, and check() fails with the same error then.  On the same files a
\* check() that returned Ok(b) is followed by a check_silent that returns Ok(b).
C14_SilentCheckAgrees ==
    [](/\ (cmd = "tag" /\ Loaded) => C14_SilentTrue /\ C14_SilentFalse /\ C14_SilentError
       /\ C14_CheckError)

\* tag ends with VersionMismatch at the first target while the second cannot
\* be read, after a check on the same files that failed on the second
C14_Witness ==
    /\ cmd = "tag" /\ pc = "done" /\ err.err = "VersionMismatch"
    /\ idx = 1 /\ Len(config.targets) = 2
    /\ Verdict(config.targets[2]) = "error"
    /\ prev = [cmd |-> "check", exit |-> ERROR]

\* the run before this one was an apply that succeeded
AfterApply == prev = [cmd |-> "apply", exit |-> SUCCESS]

\* an apply that has succeeded, and the check or apply that follows it
C15_Run ==
    /\ (cmd = "apply" /\ pc = "done" /\ exit = SUCCESS) => AllMatch
    /\ (AfterApply /\ cmd = "check") =>
           /\ all_ok
           /\ pc = "done" => exit = SUCCESS /\ Len(results) = Len(config.targets)
    /\ (AfterApply /\ cmd = "apply") =>
           /\ \A i \in 1..Len(results) : results[i].kind = "NoChange"
           /\ \A i \in 1..Len(trace) : trace[i].op = "read" /\ trace[i].ans = "Ok"
           /\ pc = "done" => exit = SUCCESS /\ Len(results) = Len(config.targets)

\* C15: when apply has succeeded every target reads config.version; a check
\* that follows it on the same configuration finds every target satisfied and
\* exits with SUCCESS, an apply that follows it reports NoChange for every
\* target and calls no write, and no file changes in the run that follows,
\* whether or not several targets name the same file.
C15_ApplyConverges == []C15_Run /\ [][AfterApply => fs' = fs]_vars

\* a second apply has ended after one that wrote (the files are not those of
\* the start) where two targets with different keys name the same file
C15_Witness ==
    /\ AfterApply /\ cmd = "apply" /\ pc = "done" /\ exit = SUCCESS
    /\ fs \notin FileSystems
    /\ Len(config.targets) = 2
    /\ config.targets[1].file = config.targets[2].file
    /\ config.targets[1].key # config.targets[2].key

====
